---- MODULE Spec2Model ----
(***************************************************************************)
(* Model of vomitorium: main, traverseDirectoryRecursively, isExcluded,    *)
(* appendFileToOutput and logSkippedFile, over a small directory tree.     *)
(* Strings the program searches in (paths, names, patterns) are sequences  *)
(* of one-character strings; a path is a sequence of names.                *)
(* One action is one turn of the event loop: the completion of one         *)
(* file-system call followed by every continuation (microtask) it wakes.   *)
(***************************************************************************)
EXTENDS Integers, Sequences, FiniteSets, TLC

\* ------------------------------------------------------------------ bounds
\* I/O calls that may fail in one run
MaxFailures == 2

\* ------------------------------------------------------- the directory tree
W == <<"w">>
P == <<"p">>
Q == <<"q">>
ZZ == <<"z", "z">>
NM == <<"n", "m">>
S == <<"s">>
A_JS == <<"a", ".", "j", "s">>
B_TXT == <<"b", ".", "t", "x", "t">>
C_TXT == <<"c", ".", "t", "x", "t">>
D_JS == <<"d", ".", "j", "s">>
E_JS == <<"e", ".", "j", "s">>
EXT_JS == <<".", "j", "s">>
EXT_TXT == <<".", "t", "x", "t">>
PAT_TXT == <<"t", "x", "t">>
DotDot == <<".", ".">>

Dirs == { <<W>>, <<W, P>>, <<W, P, NM>>, <<W, P, S>>, <<W, Q>> }

Files == { <<W, P, A_JS>>, <<W, P, B_TXT>>, <<W, P, NM, C_TXT>>,
           <<W, P, S, D_JS>>, <<W, Q, E_JS>> }

Entries == Dirs \cup Files

FileContent(f) ==
    IF f = <<W, P, A_JS>> THEN "x"
    ELSE IF f = <<W, P, B_TXT>> THEN "y"
    ELSE IF f = <<W, P, NM, C_TXT>> THEN "c"
    ELSE IF f = <<W, P, S, D_JS>> THEN ""
    ELSE "e"

\* process.cwd()
Cwd == <<W, P>>

\* --scan, resolved: ".", ".." and a directory that does not exist
ScanRoots == { <<W, P>>, <<W>>, <<W, ZZ>> }

ExcludeChoices == { {}, {NM}, {P, PAT_TXT} }
IncludeDirChoices == { {}, {S}, {W} }
ExtensionChoices == { {EXT_JS}, {EXT_JS, EXT_TXT} }

\* ------------------------------------------------------------ node:path
Parent(e) == SubSeq(e, 1, Len(e) - 1)

\* fs.readdir(d): the entries directly inside d
Children(d) == { e \in Entries : Len(e) = Len(d) + 1 /\ Parent(e) = d }

\* String.prototype.includes
Includes(s, pat) ==
    \E i \in 0..(Len(s) - Len(pat)) : SubSeq(s, i + 1, i + Len(pat)) = pat

RECURSIVE Join(_)
Join(segs) ==
    IF segs = <<>> THEN <<>>
    ELSE IF Len(segs) = 1 THEN segs[1]
    ELSE segs[1] \o <<"/">> \o Join(Tail(segs))

\* the string of an absolute path, as path.join(rootDirectoryPath, entry.name) builds it
EntryPathString(p) == <<"/">> \o Join(p)

CommonLen(a, b) ==
    LET m == IF Len(a) < Len(b) THEN Len(a) ELSE Len(b)
    IN  CHOOSE k \in 0..m :
            /\ SubSeq(a, 1, k) = SubSeq(b, 1, k)
            /\ (k = m \/ a[k + 1] # b[k + 1])

\* path.relative(from, to) of two absolute paths
PathRelative(from, to) ==
    LET k == CommonLen(from, to)
    IN  Join([i \in 1..(Len(from) - k) |-> DotDot] \o SubSeq(to, k + 1, Len(to)))

\* path.basename
Basename(p) == p[Len(p)]

\* path.extname of a name without separators
Extname(name) ==
    LET dots == { i \in 1..Len(name) : name[i] = "." }
    IN  IF dots = {} THEN <<>>
        ELSE LET k == CHOOSE i \in dots : \A j \in dots : j <= i
             IN  IF k = 1 THEN <<>> ELSE SubSeq(name, k, Len(name))

\* ------------------------------------------------------------------ state
VARIABLES
    scanDirectory,      \* targetDirectory, the resolved scan root
    includeDirectories,
    excludePatterns,
    includeExtensions,
    showExcluded,
    showSkipped,
    pc,                 \* where main is
    exitCode,
    outputBefore,       \* the output file as the run found it
    outputExists,
    output,             \* the output file: the writes made to it, in order
    task,               \* per entry: the state of its callback / traversal
    reasonArg,          \* per entry: the reason passed to logSkippedFile
    visited,            \* directories fs.readdir has been called on
    excludedSeen,       \* <<path, result>> of every isExcluded call
    log,                \* console output
    unhandled,          \* rejections no handler was attached to
    ioErrors,           \* the errors fs calls have rejected with
    failures            \* failed I/O calls so far

vars == << scanDirectory, includeDirectories, excludePatterns, includeExtensions,
           showExcluded, showSkipped, pc, exitCode, outputBefore, outputExists,
           output, task, reasonArg, visited, excludedSeen, log, unhandled,
           ioErrors, failures >>

config == << scanDirectory, includeDirectories, excludePatterns, includeExtensions,
             showExcluded, showSkipped, outputBefore >>

\* the output file before the run: absent, or left by an earlier run
OutputFileChoices ==
    { [exists |-> FALSE, content |-> <<>>],
      [exists |-> TRUE, content |-> << <<"stale">> >>] }

OutputFile == [exists |-> outputExists, content |-> output]

Nodes == Entries

Pending == { "readdir", "waiting", "reading", "appending", "logging" }

\* ------------------------------------------------------------ isExcluded
\* the base-name comparison left out
IsExcluded_NoBasename(filePath) ==
    LET relativeFilePath == PathRelative(Cwd, filePath)
    IN  \E excludePattern \in excludePatterns :
            Includes(relativeFilePath, excludePattern)

IsExcluded(filePath) ==
    LET relativeFilePath == PathRelative(Cwd, filePath)
    IN  \E excludePattern \in excludePatterns :
            \/ Includes(relativeFilePath, excludePattern)
            \/ Basename(filePath) = excludePattern

\* the test made on the path relative to the working directory
DirIncluded_Relative(entryPath) ==
    \/ includeDirectories = {}
    \/ \E dir \in includeDirectories : Includes(PathRelative(Cwd, entryPath), dir)

\* the test of includeDirectories on a directory entry
DirIncluded(entryPath) ==
    \/ includeDirectories = {}
    \/ \E dir \in includeDirectories : Includes(EntryPathString(entryPath), dir)

ExtIncluded(entryPath) == Extname(Basename(entryPath)) \in includeExtensions

\* --------------------------------------------------------------- blocks
ReasonExcluded == "Excluded"
ReasonSkipped == "Skipped (non-matching extension)"

\* the newline after the content left out
ContentBlock_NoNewline(relativePath, fileContent) ==
    << "\n\n--- File: ", relativePath, " ---\n\n", fileContent >>

\* `\n\n--- File: ${relativePath} ---\n\n${fileContent}\n`
ContentBlock(relativePath, fileContent) ==
    << "\n\n--- File: ", relativePath, " ---\n\n", fileContent, "\n" >>

\* the entry's name written in place of its relative path
SkipBlock_NameOnly(relativePath, reason) ==
    LET slashes == { i \in 1..Len(relativePath) : relativePath[i] = "/" }
        k == IF slashes = {} THEN 0
             ELSE CHOOSE i \in slashes : \A j \in slashes : j <= i
    IN  << "\n\n--- File: ", SubSeq(relativePath, k + 1, Len(relativePath)),
           " ---\n(", reason, ")\n" >>

\* `\n\n--- File: ${relativePath} ---\n(${reason})\n`
SkipBlock(relativePath, reason) ==
    << "\n\n--- File: ", relativePath, " ---\n(", reason, ")\n" >>

\* ------------------------------------------------------------ console
NoDetail == << "", <<>> >>
MsgNoRoot == << "Error: Directory does not exist or is inaccessible", scanDirectory, NoDetail >>
MsgTraversing == << "Traversing directory", scanDirectory, NoDetail >>
MsgDone == << "Done. All file contents written", <<>>, NoDetail >>
MsgMainError(err) == << "main rejected", <<>>, err >>
MsgErrorTraversing(d, err) == << "Error traversing directory", d, err >>
MsgSkipped(e, reason) == << "Skipped file", e, << reason, <<>> >> >>

\* the errors the calls reject with
ErrReaddir(d) == << "readdir", d >>
ErrReadFile(f) == << "readFile", f >>
ErrWriteFile == << "writeFile", <<>> >>
ErrAppendFile(e) == << "appendFile", e >>
\* new Error(`Error appending file ${sourceFilePath}: ${error.message}`)
ErrAppending(f) == << "Error appending file", f >>

\* ------------------------------------------------- promises and handlers
\* The promise of entry e (the callback of directoryEntries.map, or for the
\* scan root the call made by main) settles with outcome; the continuations
\* waiting on it run: Promise.all of the parent directory, its catch block,
\* and so on up to main.  s = [task, log, pc, unhandled].
\* a Promise.race in place of Promise.all
PromiseAll_Any(t, d) == \E c \in Children(d) : t[c] = "fulfilled"

\* Promise.all over the callbacks of d resolves once every one has fulfilled
PromiseAll(t, d) == \A c \in Children(d) : t[c] = "fulfilled"

RECURSIVE SettleEntry(_, _, _, _)
SettleEntry(s, e, outcome, err) ==
    LET s1 == [s EXCEPT !.task[e] = outcome]
        d == Parent(e)
    IN  IF e = scanDirectory
        THEN \* main: await traverseDirectoryRecursively(...); console.log(Done)
             IF outcome = "fulfilled"
             THEN [s1 EXCEPT !.pc = "done", !.log = @ \cup {MsgDone}]
             ELSE [s1 EXCEPT !.pc = "failed", !.log = @ \cup {MsgMainError(err)}]
        ELSE IF s.task[d] # "waiting"
        THEN \* Promise.all of d has settled: it ignores later outcomes
             s1
        ELSE IF outcome = "rejected"
        THEN \* Promise.all rejects; catch (error) logs; the traversal of d returns
             SettleEntry([s1 EXCEPT !.log = @ \cup {MsgErrorTraversing(d, err)}],
                         d, "fulfilled", NoDetail)
        ELSE IF PromiseAll(s1.task, d)
        THEN SettleEntry(s1, d, "fulfilled", NoDetail)
        ELSE s1

Now == [task |-> task, log |-> log, pc |-> pc, unhandled |-> unhandled]

Become(s) ==
    /\ task' = s.task
    /\ log' = s.log
    /\ pc' = s.pc
    /\ unhandled' = s.unhandled

\* no try/catch around fs.readdir: the rejection reaches the caller
OnReaddirRejected_Rethrow(s, d) == SettleEntry(s, d, "rejected", ErrReaddir(d))

\* fs.readdir rejected inside the try of traverseDirectoryRecursively
OnReaddirRejected(s, d) ==
    SettleEntry([s EXCEPT !.log = @ \cup {MsgErrorTraversing(d, ErrReaddir(d))}],
                d, "fulfilled", NoDetail)

\* await appendFileToOutput(entryPath, outputFilePath) rejected
OnAppendRejected(s, f) == SettleEntry(s, f, "rejected", ErrAppending(f))

\* logSkippedFile called without await: the callback returns, nothing
\* handles the rejection
OnLogSkipRejected_Unawaited(s, e) ==
    [s EXCEPT !.task[e] = "rejected", !.unhandled = @ \cup {e}]

\* await logSkippedFile(entryPath, outputFilePath, reason) rejected
OnLogSkipRejected(s, e) == SettleEntry(s, e, "rejected", ErrAppendFile(e))

\* the directory test made before the exclusion test
EntryTask_DirFirst(entryPath) ==
    IF entryPath \in Dirs
    THEN IF DirIncluded(entryPath)
         THEN [st |-> "readdir", reason |-> ""]
         ELSE [st |-> "fulfilled", reason |-> ""]
    ELSE IF IsExcluded(entryPath)
    THEN IF showExcluded
         THEN [st |-> "logging", reason |-> ReasonExcluded]
         ELSE [st |-> "fulfilled", reason |-> ""]
    ELSE IF ~ExtIncluded(entryPath)
    THEN IF showSkipped
         THEN [st |-> "logging", reason |-> ReasonSkipped]
         ELSE [st |-> "fulfilled", reason |-> ""]
    ELSE [st |-> "reading", reason |-> ""]

\* The callback of directoryEntries.map up to its first await: the call it
\* makes for the entry (st) and the reason it passes to logSkippedFile.
EntryTask(entryPath) ==
    IF IsExcluded(entryPath)
    THEN IF showExcluded
         THEN [st |-> "logging", reason |-> ReasonExcluded]
         ELSE [st |-> "fulfilled", reason |-> ""]
    ELSE IF entryPath \in Dirs
    THEN IF DirIncluded(entryPath)
         THEN [st |-> "readdir", reason |-> ""]
         ELSE [st |-> "fulfilled", reason |-> ""]
    ELSE IF ~ExtIncluded(entryPath)
    THEN IF showSkipped
         THEN [st |-> "logging", reason |-> ReasonSkipped]
         ELSE [st |-> "fulfilled", reason |-> ""]
    ELSE [st |-> "reading", reason |-> ""]

\* ------------------------------------------------------------------- Init
Init ==
    /\ scanDirectory \in ScanRoots
    /\ includeDirectories \in IncludeDirChoices
    /\ excludePatterns \in ExcludeChoices
    /\ includeExtensions \in ExtensionChoices
    /\ showExcluded \in BOOLEAN
    /\ showSkipped \in BOOLEAN
    /\ pc = "access"
    /\ exitCode = 0
    /\ outputBefore \in OutputFileChoices
    /\ outputExists = outputBefore.exists
    /\ output = outputBefore.content
    /\ task = [e \in Nodes |-> "none"]
    /\ reasonArg = [e \in Nodes |-> ""]
    /\ visited = {}
    /\ excludedSeen = {}
    /\ log = {}
    /\ unhandled = {}
    /\ ioErrors = {}
    /\ failures = 0

\* ------------------------------------------------------------------- main
AccessOk ==
    /\ pc = "access"
    /\ scanDirectory \in Dirs
    /\ pc' = "truncate"
    /\ UNCHANGED << config, exitCode, outputExists, output, task, reasonArg, visited,
                    excludedSeen, log, unhandled, ioErrors, failures >>

\* process.exit(1) left out: main goes on to fs.writeFile
AccessFailed_NoExit ==
    /\ pc = "access"
    /\ scanDirectory \notin Dirs
    /\ log' = log \cup {MsgNoRoot}
    /\ pc' = "truncate"
    /\ UNCHANGED << config, exitCode, outputExists, output, task, reasonArg,
                    visited, excludedSeen, unhandled, ioErrors, failures >>

\* catch { console.error(...); process.exit(1) }
AccessFailed ==
    /\ pc = "access"
    /\ scanDirectory \notin Dirs
    /\ log' = log \cup {MsgNoRoot}
    /\ exitCode' = 1
    /\ pc' = "exited"
    /\ UNCHANGED << config, outputExists, output, task, reasonArg, visited, excludedSeen,
                    unhandled, ioErrors, failures >>

\* await fs.writeFile(outputFilePath, ""); console.log; traverse... calls fs.readdir
WriteFileOk ==
    /\ pc = "truncate"
    /\ output' = <<>>
    /\ outputExists' = TRUE
    /\ log' = log \cup {MsgTraversing}
    /\ pc' = "traversing"
    /\ task' = [task EXCEPT ![scanDirectory] = "readdir"]
    /\ visited' = visited \cup {scanDirectory}
    /\ UNCHANGED << config, exitCode, reasonArg, excludedSeen, unhandled, ioErrors, failures >>

\* fs.writeFile rejects: main rejects, main().catch(console.error)
WriteFileFailed ==
    /\ pc = "truncate"
    /\ failures < MaxFailures
    /\ failures' = failures + 1
    /\ ioErrors' = ioErrors \cup {ErrWriteFile}
    /\ pc' = "failed"
    /\ log' = log \cup {MsgMainError(ErrWriteFile)}
    /\ UNCHANGED << config, exitCode, outputExists, output, task, reasonArg, visited,
                    excludedSeen, unhandled >>

\* ------------------------------------------- traverseDirectoryRecursively
\* fs.readdir(d) resolves: every entry's callback runs to its first await
ReaddirOk(d) ==
    /\ task[d] = "readdir"
    /\ LET kids == Children(d)
           t1 == [e \in Nodes |-> IF e \in kids THEN EntryTask(e).st
                                  ELSE IF e = d THEN "waiting" ELSE task[e]]
           s1 == [Now EXCEPT !.task = t1]
       IN  /\ Become(IF PromiseAll(t1, d)
                     THEN SettleEntry(s1, d, "fulfilled", NoDetail)
                     ELSE s1)
           /\ reasonArg' = [e \in Nodes |-> IF e \in kids THEN EntryTask(e).reason
                                            ELSE reasonArg[e]]
           /\ visited' = visited \cup { c \in kids : t1[c] = "readdir" }
           /\ excludedSeen' = excludedSeen \cup { << c, IsExcluded(c) >> : c \in kids }
    /\ UNCHANGED << config, exitCode, outputExists, output, ioErrors, failures >>

ReaddirFailed(d) ==
    /\ task[d] = "readdir"
    /\ failures < MaxFailures
    /\ failures' = failures + 1
    /\ ioErrors' = ioErrors \cup {ErrReaddir(d)}
    /\ Become(OnReaddirRejected(Now, d))
    /\ UNCHANGED << config, exitCode, outputExists, output, reasonArg, visited, excludedSeen >>

\* --------------------------------------------------- appendFileToOutput
\* fs.readFile resolves; fs.appendFile is called
ReadFileOk(f) ==
    /\ task[f] = "reading"
    /\ task' = [task EXCEPT ![f] = "appending"]
    /\ UNCHANGED << config, pc, exitCode, outputExists, output, reasonArg, visited,
                    excludedSeen, log, unhandled, ioErrors, failures >>

ReadFileFailed(f) ==
    /\ task[f] = "reading"
    /\ failures < MaxFailures
    /\ failures' = failures + 1
    /\ ioErrors' = ioErrors \cup {ErrReadFile(f)}
    /\ Become(OnAppendRejected(Now, f))
    /\ UNCHANGED << config, exitCode, outputExists, output, reasonArg, visited, excludedSeen >>

AppendOk(f) ==
    /\ task[f] = "appending"
    /\ output' = Append(output, ContentBlock(PathRelative(Cwd, f), FileContent(f)))
    /\ Become(SettleEntry(Now, f, "fulfilled", NoDetail))
    /\ UNCHANGED << config, exitCode, outputExists, reasonArg, visited, excludedSeen, ioErrors, failures >>

AppendFailed(f) ==
    /\ task[f] = "appending"
    /\ failures < MaxFailures
    /\ failures' = failures + 1
    /\ ioErrors' = ioErrors \cup {ErrAppendFile(f)}
    /\ Become(OnAppendRejected(Now, f))
    /\ UNCHANGED << config, exitCode, outputExists, output, reasonArg, visited, excludedSeen >>

\* ------------------------------------------------------- logSkippedFile
LogSkipOk(e) ==
    /\ task[e] = "logging"
    /\ output' = Append(output, SkipBlock(PathRelative(Cwd, e), reasonArg[e]))
    /\ Become(SettleEntry([Now EXCEPT !.log = @ \cup {MsgSkipped(e, reasonArg[e])}],
                          e, "fulfilled", NoDetail))
    /\ UNCHANGED << config, exitCode, outputExists, reasonArg, visited, excludedSeen, ioErrors, failures >>

LogSkipFailed(e) ==
    /\ task[e] = "logging"
    /\ failures < MaxFailures
    /\ failures' = failures + 1
    /\ ioErrors' = ioErrors \cup {ErrAppendFile(e)}
    /\ Become(OnLogSkipRejected(Now, e))
    /\ UNCHANGED << config, exitCode, outputExists, output, reasonArg, visited, excludedSeen >>

Next ==
    \/ AccessOk
    \/ AccessFailed
    \/ WriteFileOk
    \/ WriteFileFailed
    \/ \E d \in Dirs : ReaddirOk(d)
    \/ \E d \in Dirs : ReaddirFailed(d)
    \/ \E f \in Files : ReadFileOk(f)
    \/ \E f \in Files : ReadFileFailed(f)
    \/ \E f \in Files : AppendOk(f)
    \/ \E f \in Files : AppendFailed(f)
    \/ \E e \in Entries : LogSkipOk(e)
    \/ \E e \in Entries : LogSkipFailed(e)

Spec == Init /\ [][Next]_vars

TypeOK ==
    /\ pc \in { "access", "truncate", "traversing", "done", "exited", "failed" }
    /\ \A e \in Nodes : task[e] \in Pending \cup { "none", "fulfilled", "rejected" }
    /\ failures \in 0..MaxFailures

\* ------------------------------------------------- the tree, as text
\* the path of each entry relative to the working directory /w/p
RelOf(e) ==
    CASE e = <<W>> -> <<".", ".">>
      [] e = <<W, P>> -> <<>>
      [] e = <<W, P, A_JS>> -> <<"a", ".", "j", "s">>
      [] e = <<W, P, B_TXT>> -> <<"b", ".", "t", "x", "t">>
      [] e = <<W, P, NM>> -> <<"n", "m">>
      [] e = <<W, P, NM, C_TXT>> -> <<"n", "m", "/", "c", ".", "t", "x", "t">>
      [] e = <<W, P, S>> -> <<"s">>
      [] e = <<W, P, S, D_JS>> -> <<"s", "/", "d", ".", "j", "s">>
      [] e = <<W, Q>> -> <<".", ".", "/", "q">>
      [] e = <<W, Q, E_JS>> -> <<".", ".", "/", "q", "/", "e", ".", "j", "s">>

\* the absolute path of each directory
AbsOf(d) ==
    CASE d = <<W>> -> <<"/", "w">>
      [] d = <<W, P>> -> <<"/", "w", "/", "p">>
      [] d = <<W, P, NM>> -> <<"/", "w", "/", "p", "/", "n", "m">>
      [] d = <<W, P, S>> -> <<"/", "w", "/", "p", "/", "s">>
      [] d = <<W, Q>> -> <<"/", "w", "/", "q">>

\* the extension of each file
ExtOf(f) ==
    IF f \in { <<W, P, B_TXT>>, <<W, P, NM, C_TXT>> } THEN EXT_TXT ELSE EXT_JS

\* pat occurs in s: some slice of s is pat
Contains(s, pat) ==
    \E i \in 0..Len(s) : \E j \in i..Len(s) : SubSeq(s, i + 1, j) = pat

UnderRoot(e) ==
    /\ Len(e) > Len(scanDirectory)
    /\ SubSeq(e, 1, Len(scanDirectory)) = scanDirectory

\* the directories between the scan root and e
Ancestors(e) == { SubSeq(e, 1, k) : k \in (Len(scanDirectory) + 1)..(Len(e) - 1) }

MatchesExclude(e) ==
    \E pat \in excludePatterns : Contains(RelOf(e), pat) \/ e[Len(e)] = pat

MatchesIncludeDirs(d) == \E pat \in includeDirectories : Contains(AbsOf(d), pat)

MayDescend(d) == includeDirectories = {} \/ MatchesIncludeDirs(d)

\* directories whose fs.readdir failed
ReaddirFailedDirs == { d \in Dirs : ErrReaddir(d) \in ioErrors }

\* the entries of d have been read
EntriesRead(d) ==
    /\ d \in visited
    /\ task[d] # "readdir"
    /\ d \notin ReaddirFailedDirs

\* e is reached: every directory above it, from the scan root down, was
\* descended into (and, for failed, read)
Reached(e, failed) ==
    /\ scanDirectory \in Dirs
    /\ scanDirectory \notin failed
    /\ UnderRoot(e)
    /\ \A a \in Ancestors(e) : ~MatchesExclude(a) /\ MayDescend(a) /\ a \notin failed

IsBlock(w) == Len(w) = 5 /\ w[1] = "\n\n--- File: "
IsContentBlock(w) == IsBlock(w) /\ w[3] = " ---\n\n" /\ w[5] = "\n"
IsSkipBlock(w) == IsBlock(w) /\ w[3] = " ---\n(" /\ w[5] = ")\n"

ContentBlockOf(f) == << "\n\n--- File: ", RelOf(f), " ---\n\n", FileContent(f), "\n" >>
ExcludedBlockOf(e) == << "\n\n--- File: ", RelOf(e), " ---\n(", "Excluded", ")\n" >>
SkippedBlockOf(f) ==
    << "\n\n--- File: ", RelOf(f), " ---\n(", "Skipped (non-matching extension)", ")\n" >>

\* the blocks a reached entry is to have
BlocksOf(e) ==
    IF MatchesExclude(e) THEN (IF showExcluded THEN {ExcludedBlockOf(e)} ELSE {})
    ELSE IF e \in Dirs THEN {}
    ELSE IF ExtOf(e) \in includeExtensions THEN {ContentBlockOf(e)}
    ELSE IF showSkipped THEN {SkippedBlockOf(e)} ELSE {}

ExpectedBlocks(failed) == UNION { BlocksOf(e) : e \in { x \in Entries : Reached(x, failed) } }

\* out holds each block of blocks once, and nothing else
HoldsExactly(out, blocks) ==
    /\ \A i \in DOMAIN out : out[i] \in blocks
    /\ \A b \in blocks : Cardinality({ i \in DOMAIN out : out[i] = b }) = 1

BlockFor(e) == \E i \in DOMAIN output : IsBlock(output[i]) /\ output[i][2] = RelOf(e)

IoPending == { "readdir", "reading", "appending", "logging" }
Settled == \A e \in Nodes : task[e] \notin Pending

\* ------------------------------------------------------------------ C1
\* C1: an entry under the scan root that matches an exclude pattern, or lies
\* beneath a directory that does, is never descended into and never gets a
\* content block; with showExcluded false the output holds no "Excluded"
\* block and no block at all for such an entry.
C1_ExcludedNeverIncluded ==
    /\ \A e \in Entries :
        (UnderRoot(e) /\ (MatchesExclude(e) \/ \E a \in Ancestors(e) : MatchesExclude(a)))
        => /\ e \notin visited
           /\ \A i \in DOMAIN output :
                ~(IsContentBlock(output[i]) /\ output[i][2] = RelOf(e))
           /\ (~showExcluded => ~BlockFor(e))
    /\ ~showExcluded =>
        \A i \in DOMAIN output : ~(IsSkipBlock(output[i]) /\ output[i][4] = "Excluded")

C1_Witness ==
    /\ pc = "done"
    /\ ~showExcluded
    /\ includeDirectories = {W}
    /\ << <<W, P, NM>>, TRUE >> \in excludedSeen
    /\ Len(output) >= 3

C3_Original ==
    (pc = "done" /\ Settled /\ showSkipped) =>
        \A f \in Files :
            (UnderRoot(f) /\ ExtOf(f) \notin includeExtensions)
                => \E i \in DOMAIN output : output[i] = SkippedBlockOf(f)

\* C3 amended: once no task is pending, a file whose directory's entries were
\* read, that is not excluded and whose extension is not listed, has with
\* showSkipped exactly one "Skipped" block, unless the append of that block
\* failed.
C3_SkippedReported ==
    (Settled /\ showSkipped) =>
        \A f \in Files :
            (/\ UnderRoot(f)
             /\ EntriesRead(Parent(f))
             /\ ~MatchesExclude(f)
             /\ ExtOf(f) \notin includeExtensions
             /\ task[f] # "rejected")
                => Cardinality({ i \in DOMAIN output : output[i] = SkippedBlockOf(f) }) = 1

C3_Witness ==
    /\ pc = "done"
    /\ Settled
    /\ showSkipped
    /\ failures > 0
    /\ task[<<W, P, NM, C_TXT>>] = "fulfilled"
    /\ \E i \in DOMAIN output : output[i] = SkippedBlockOf(<<W, P, NM, C_TXT>>)

\* ------------------------------------------------------------------ C4
\* C4: every answer isExcluded gave is true exactly when some exclude pattern
\* occurs in the entry's path relative to the working directory or equals its
\* base name, and one path never got two answers.
C4_IsExcludedExact ==
    /\ \A r \in excludedSeen : r[2] = MatchesExclude(r[1])
    /\ \A r1, r2 \in excludedSeen : r1[1] = r2[1] => r1[2] = r2[2]

C4_Witness ==
    /\ << <<W, P>>, TRUE >> \in excludedSeen
    /\ << <<W, Q>>, FALSE >> \in excludedSeen

\* ------------------------------------------------------------------ C5
\* C5: with a scan root that does not exist the output file stays as the run
\* found it, no directory is read, no task starts, and the run ends with the
\* error message and exit code 1.
C5_MissingRootLeavesOutput ==
    scanDirectory \notin Dirs =>
        /\ OutputFile = outputBefore
        /\ visited = {}
        /\ \A e \in Nodes : task[e] = "none"
        /\ pc \in { "access", "exited" }
        /\ pc = "exited" => (exitCode = 1 /\ MsgNoRoot \in log)

C5_Witness ==
    /\ pc = "exited"
    /\ exitCode = 1
    /\ outputBefore.exists

\* ------------------------------------------------------------------ C6
\* C6: a directory whose fs.readdir failed has the failure logged by its own
\* handler and its traversal fulfilled, not rejected; when directory reads are the only failures the run neither
\* exits nor fails, it is never stuck before the completion message, and at
\* the completion message the output holds exactly the blocks of the entries
\* reached outside the failed directories.
C6_ReaddirFailureIsolated ==
    /\ \A d \in ReaddirFailedDirs :
        /\ task[d] = "fulfilled"
        /\ MsgErrorTraversing(d, ErrReaddir(d)) \in log
    /\ (ReaddirFailedDirs # {} /\ failures = Cardinality(ReaddirFailedDirs)) =>
        /\ pc \in { "traversing", "done" }
        /\ exitCode = 0
        /\ pc = "traversing" => \E e \in Nodes : task[e] \in IoPending
        /\ pc = "done" => HoldsExactly(output, ExpectedBlocks(ReaddirFailedDirs))

C6_Witness ==
    /\ pc = "done"
    /\ ReaddirFailedDirs = { <<W, P, NM>> }
    /\ failures = 1
    /\ \E i \in DOMAIN output : output[i] = ContentBlockOf(<<W, P, S, D_JS>>)
    /\ \E i \in DOMAIN output : output[i] = ContentBlockOf(<<W, P, A_JS>>)

\* ------------------------------------------------------------------ C7
ErrOf(c) == IF reasonArg[c] # "" THEN ErrAppendFile(c) ELSE ErrAppending(c)

\* the append made by logSkippedFile for e failed
SkipAppendFailed(e) == task[e] = "rejected" /\ reasonArg[e] # ""

\* C7 as stated: a failed append of logSkippedFile is an unhandled rejection
\* and the handler of the directory does not catch it.
C7_Original ==
    \A e \in Entries :
        SkipAppendFailed(e) =>
            /\ e \in unhandled
            /\ MsgErrorTraversing(Parent(e), ErrAppendFile(e)) \notin log

\* C7 amended: a failed append of logSkippedFile rejects the entry's callback,
\* which Promise.all of the enclosing directory holds: the directory's catch
\* block logs it, or has already logged the failure of another entry of the
\* same directory; it is never an unhandled rejection.
C7_SkipFailureCaught ==
    \A e \in Entries :
        SkipAppendFailed(e) =>
            /\ e \notin unhandled
            /\ \/ MsgErrorTraversing(Parent(e), ErrAppendFile(e)) \in log
               \/ \E c \in Children(Parent(e)) \ {e} :
                    /\ task[c] = "rejected"
                    /\ MsgErrorTraversing(Parent(e), ErrOf(c)) \in log

C7_Witness ==
    /\ SkipAppendFailed(<<W, P, B_TXT>>)
    /\ MsgErrorTraversing(<<W, P>>, ErrAppendFile(<<W, P, B_TXT>>)) \in log
    /\ unhandled = {}
    /\ pc = "done"

\* ------------------------------------------------------------------ C8
\* C8: at the completion message of a run without I/O error the output holds
\* exactly one block for each reached entry that is to have one (content,
\* "Excluded" with showExcluded, "Skipped" with showSkipped) and no other
\* block, in whatever order the tasks finished.
C8_SameBlocksAnyOrder ==
    (pc = "done" /\ failures = 0) => HoldsExactly(output, ExpectedBlocks({}))

\* a finished run whose blocks are not in directory order
C8_Witness ==
    /\ pc = "done"
    /\ failures = 0
    /\ showExcluded
    /\ showSkipped
    /\ Len(output) = 4
    /\ output[1] = ContentBlockOf(<<W, P, S, D_JS>>)
    /\ output[2] = SkippedBlockOf(<<W, P, B_TXT>>)
    /\ output[3] = ExcludedBlockOf(<<W, P, NM>>)
    /\ output[4] = ContentBlockOf(<<W, P, A_JS>>)

\* ------------------------------------------------------------------ C9
\* the whole blocks an append may write for e
WholeBlocks(e) ==
    { ExcludedBlockOf(e), SkippedBlockOf(e) }
        \cup (IF e \in Files THEN {ContentBlockOf(e)} ELSE {})

C9_Truncation ==
    /\ pc = "truncate"
    /\ visited = {}
    /\ visited' # {}
    /\ output' = <<>>
    /\ outputExists'

C9_AppendWhole ==
    /\ visited # {}
    /\ outputExists' = outputExists
    /\ \E e \in Entries : \E b \in WholeBlocks(e) : output' = Append(output, b)

C9_OnlyWholeBlocks ==
    visited # {} =>
        /\ outputExists
        /\ \A i \in DOMAIN output : \E e \in Entries : output[i] \in WholeBlocks(e)

\* C9: the output file changes only by the one truncation made before any
\* directory is read and, after it, by appends of one whole block; once
\* emptied it is a sequence of whole blocks, each content block holding the
\* file's content between header and trailing newline.
C9_AppendOnly ==
    /\ []C9_OnlyWholeBlocks
    /\ [][OutputFile' = OutputFile \/ C9_Truncation \/ C9_AppendWhole]_vars

C9_Witness ==
    /\ outputBefore.exists
    /\ Len(output) = 3
    /\ output[1] = ContentBlockOf(<<W, P, S, D_JS>>)
    /\ output[2] = SkippedBlockOf(<<W, P, B_TXT>>)
    /\ output[3] = ContentBlockOf(<<W, P, A_JS>>)

\* ----------------------------------------------------------------- C10
\* C10: when the completion message is printed no task is pending, also after
\* the read or the append of a file has failed.
C10_DoneMeansSettled == pc = "done" => Settled

====
